---------------------------- MODULE Spec2Model ----------------------------
(***************************************************************************)
(* Receipt Parser Pro: the batch orchestrator of App (handleProcessReceipts)*)
(* with its per-batch result store (results / updateResult), the React     *)
(* state it publishes to (processedReceipts, isProcessing) and the three   *)
(* collaborators it awaits: extractTextFromImage, generateExpenseJson and  *)
(* saveToGoogleSheets.                                                     *)
(*                                                                         *)
(* JavaScript runs every handler to its next await without interleaving,   *)
(* so one action is the code between two suspension points.  The only      *)
(* place where two merge-updates hit the same record inside one such run   *)
(* (lines 82 and 85) is split in two steps, with every other action        *)
(* disabled in between, so that each update is visible on its own; the     *)
(* foot of the loop is a step of its own in the same way, so that the      *)
(* state a job ends in is visible before the next record is pushed.        *)
(*                                                                         *)
(* Spec is the page: the handler runs when the button is clicked, and the  *)
(* button is disabled while a batch is processed or a precondition is      *)
(* missing.  HandlerSpec calls the handler without the button, between two *)
(* batches, which is the only way its validation can refuse a call.        *)
(* FairSpec adds that every pending collaborator call settles.             *)
(***************************************************************************)
EXTENDS Integers, Sequences, FiniteSets, TLC

(* ------------------------------ bounds -------------------------------- *)
\* longest list of files the user selects
MaxFiles == 3
\* number of invocations of handleProcessReceipts in one run of the model
MaxBatches == 2
\* number of milliseconds the clock advances in one run of the model
MaxTicks == 1
\* first value of Date.now() (all values have the same number of digits)
ClockStart == 1000
\* longest list of files selected where two invocations overlap
MaxOverlapFiles == 1
\* longest store updateResult is applied to on its own
MaxStore == 2

(* ------------------------------ values -------------------------------- *)
NULL == "<null>"
UNDEFINED == "<undefined>"

\* names of the files the user can pick (two files may share a name)
FileNames == {"A.jpg", "B.jpg"}
\* the selections of at most MaxFiles files; names matter only by being
\* equal or not, so the first file of a selection is called A.jpg
FileLists ==
    {fs \in UNION {[1..n -> FileNames] : n \in 0..MaxFiles} :
        Len(fs) > 0 => fs[1] = "A.jpg"}

AccessToken == "ya29.token"
SheetId == "sheet-1"

\* messages of the errors the Gemini SDK call rejects with
ApiErrors == {"", "Could not extract any text."}
\* response.text of the OCR call
OcrTexts == {"", "  ", "TOTAL 12.50"}
\* response.text of the structuring call
JsonTexts == {"not json", " null ", "{}",
              "{\"merchant\":\"M\",\"date\":\"D\",\"total\":12,\"items\":[]}"}
\* error.message of a non-ok Sheets response (absent or present)
SheetsErrors == {UNDEFINED, "The caller does not have permission"}

\* values JSON.parse yields for JsonTexts
EmptyObject == "data:{}"
ValidExpense == "data:valid"

EmptyTextMessage == "Could not extract any text. The image might be unclear."
UnknownErrorMessage == "An unknown error occurred."
InvalidStructureMessage ==
    "AI failed to generate a valid data structure. The receipt might be ambiguous."
SheetsFallbackMessage == "Failed to save to Google Sheets"
DestructureNullMessage ==
    "Cannot destructure property 'merchant' of 'expenseData' as it is null."
MapOfUndefinedMessage == "Cannot read properties of undefined (reading 'map')"

Batches == 1..MaxBatches

VARIABLES
    googleAccessToken,  \* App state
    spreadsheetId,      \* App state
    imageFiles,         \* App state: the selected files (their names)
    isProcessing,       \* App state
    processedReceipts,  \* App state: the observable collection
    now,                \* the value Date.now() returned last
    invocations,        \* number of calls of handleProcessReceipts so far
    alerts,             \* number of alert() dialogs shown
    pc,                 \* per invocation: where the handler is suspended
    files,              \* per invocation: imageFiles captured by the closure
    cur,                \* per invocation: position of the for loop
    results,            \* per invocation: the local array `results`
    initialId,          \* per invocation: initialResult.id of the current job
    expenseData,        \* per invocation: the local const expenseData
    call                \* per invocation: what the current job called and got

appVars == <<googleAccessToken, spreadsheetId, imageFiles, isProcessing,
             processedReceipts>>
runVars == <<pc, files, cur, results, initialId, expenseData, call>>
vars == <<appVars, now, invocations, alerts, runVars>>

(* --------------------------- pure functions --------------------------- *)
\* !x of JavaScript for the strings of the model
Falsy(x) == x \in {"", NULL, UNDEFINED}

\* a || b
OrElse(a, b) == IF Falsy(a) THEN b ELSE a

\* String.prototype.trim on the response texts of the model
Trim(s) == IF s = " null " THEN "null" ELSE s

\* JSON.parse: [ok |-> FALSE] stands for the SyntaxError it throws
JsonParse(s) ==
    CASE s = "null" -> [ok |-> TRUE, value |-> NULL]
      [] s = "{}" -> [ok |-> TRUE, value |-> EmptyObject]
      [] s = "{\"merchant\":\"M\",\"date\":\"D\",\"total\":12,\"items\":[]}"
           -> [ok |-> TRUE, value |-> ValidExpense]
      [] OTHER -> [ok |-> FALSE, value |-> NULL]

\* the values Date.now() can return: the clock never runs backwards
DateNow == now..(ClockStart + MaxTicks)

\* file.name + Date.now()
JobId(name, t) == name \o ToString(t)

\* the object URL minted for file k of invocation b (unique per call)
CreateObjectURL(b, k) == <<"blob", b, k>>

InitialResult(b, k, name, t) ==
    [id |-> JobId(name, t),
     imagePreview |-> CreateObjectURL(b, k),
     status |-> "Processing OCR...",
     data |-> NULL,
     saveStatus |-> "pending",
     error |-> NULL]

\* results.findIndex(r => r.id === id)
FindIndex(res, id) ==
    IF \E i \in 1..Len(res) : res[i].id = id
    THEN CHOOSE i \in 1..Len(res) :
            /\ res[i].id = id
            /\ \A j \in 1..(i - 1) : res[j].id # id
    ELSE -1

\* { ...r, ...update }
Merge(r, update) ==
    [f \in (DOMAIN r) \cup (DOMAIN update) |->
        IF f \in DOMAIN update THEN update[f] ELSE r[f]]

\* an updateResult that publishes a snapshot whether or not it found the id
UpdateResultAlwaysEmits(st, id, update) ==
    LET index == FindIndex(st.results, id)
        res == IF index # -1
               THEN [st.results EXCEPT ![index] = Merge(@, update)]
               ELSE st.results
    IN [results |-> res, observed |-> res]

\* an updateResult that inserts the merged record in front of the one found
UpdateResultInserts(st, id, update) ==
    LET index == FindIndex(st.results, id) IN
    IF index # -1
    THEN LET res == SubSeq(st.results, 1, index - 1)
                        \o <<Merge(st.results[index], update)>>
                        \o SubSeq(st.results, index, Len(st.results))
         IN [results |-> res, observed |-> res]
    ELSE st

\* updateResult, on a store st = [results, observed]: the closure's array and
\* the collection last handed to setProcessedReceipts
UpdateResult(st, id, update) ==
    LET index == FindIndex(st.results, id) IN
    IF index # -1
    THEN LET res == [st.results EXCEPT ![index] = Merge(@, update)] IN
         [results |-> res, observed |-> res]
    ELSE st

\* a catch block without the fallback message
CatchUpdateNoFallback(msg) ==
    [status |-> "Failed", error |-> msg, saveStatus |-> "failed"]

\* a catch block that reports every error as an unreadable image
CatchUpdateUnclearImage(msg) ==
    [status |-> "Failed", error |-> EmptyTextMessage, saveStatus |-> "failed"]

\* the update of the catch block, for a caught error with message msg
CatchUpdate(msg) ==
    [status |-> "Failed",
     error |-> OrElse(msg, UnknownErrorMessage),
     saveStatus |-> "failed"]

\* the synchronous prefix of saveToGoogleSheets: the message of the TypeError
\* it throws before any request is made, or NULL when it gets to fetch
SaveTypeError(data) ==
    CASE data = NULL -> DestructureNullMessage
      [] data = EmptyObject -> MapOfUndefinedMessage
      [] OTHER -> NULL

Store(b) == [results |-> results[b], observed |-> processedReceipts]

\* some handler is between two updates of one synchronous run
Busy == \E b \in Batches : pc[b] \in {"structured", "loop"}

\* the calls of one job: what each collaborator was asked and answered, and
\* the message of the error the catch block caught
NoJob ==
    [extract |-> "none", text |-> NULL, structure |-> "none", parsed |-> NULL,
     persist |-> "none", caught |-> NULL]

(* ------------------------------- Init --------------------------------- *)
Init ==
    /\ googleAccessToken = ""
    /\ spreadsheetId = ""
    /\ imageFiles = <<>>
    /\ isProcessing = FALSE
    /\ processedReceipts = <<>>
    /\ now = ClockStart
    /\ invocations = 0
    /\ alerts = 0
    /\ pc = [b \in Batches |-> "idle"]
    /\ files = [b \in Batches |-> <<>>]
    /\ cur = [b \in Batches |-> 0]
    /\ results = [b \in Batches |-> <<>>]
    /\ initialId = [b \in Batches |-> NULL]
    /\ expenseData = [b \in Batches |-> NULL]
    /\ call = [b \in Batches |-> NoJob]

(* ------------------------------ the user ------------------------------ *)
\* GoogleSheetsAuth hands over the token it received
SetGoogleAccessToken ==
    /\ ~Busy
    /\ googleAccessToken # AccessToken
    /\ googleAccessToken' = AccessToken
    /\ UNCHANGED <<spreadsheetId, imageFiles, isProcessing, processedReceipts,
                   now, invocations, alerts, runVars>>

\* GoogleSheetsAuth hands over the chosen spreadsheet (the empty option is
\* disabled)
SetSpreadsheetId ==
    /\ ~Busy
    /\ spreadsheetId # SheetId
    /\ spreadsheetId' = SheetId
    /\ UNCHANGED <<googleAccessToken, imageFiles, isProcessing, processedReceipts,
                   now, invocations, alerts, runVars>>

\* ImageUploader hands over the selected files; it is disabled while a batch
\* is processed
SetImageFiles ==
    /\ ~Busy
    /\ ~isProcessing
    /\ \E fs \in FileLists :
        /\ fs # imageFiles
        /\ imageFiles' = fs
    /\ UNCHANGED <<googleAccessToken, spreadsheetId, isProcessing,
                   processedReceipts, now, invocations, alerts, runVars>>

(* ------------------------- handleProcessReceipts ---------------------- *)
\* the closures of the invocations that returned are garbage: a new
\* invocation forgets them
Live(f, fresh) == [c \in Batches |-> IF pc[c] = "done" THEN fresh ELSE f[c]]

\* a button that stays enabled while a batch is being processed
ButtonEnabledWhileProcessing ==
    \/ Len(imageFiles) = 0
    \/ Falsy(googleAccessToken)
    \/ Falsy(spreadsheetId)

\* the disabled attribute of the Process Receipts button
ButtonDisabled ==
    \/ isProcessing
    \/ Len(imageFiles) = 0
    \/ Falsy(googleAccessToken)
    \/ Falsy(spreadsheetId)

\* a validation that forgets the spreadsheet
InvalidIgnoresSheet ==
    \/ Len(imageFiles) = 0
    \/ Falsy(googleAccessToken)

\* the validation at the head of the handler
Invalid ==
    \/ Len(imageFiles) = 0
    \/ Falsy(googleAccessToken)
    \/ Falsy(spreadsheetId)

\* a call of the handler, up to its first await: validation, the two state
\* resets, and the first iteration of the loop up to extractTextFromImage
handleProcessReceipts ==
    /\ ~Busy
    /\ invocations < MaxBatches
    /\ invocations' = invocations + 1
    /\ LET b == invocations + 1 IN
       IF Invalid
       THEN /\ alerts' = alerts + 1
            /\ UNCHANGED <<appVars, now, runVars>>
       ELSE \E t \in DateNow :
            LET first == InitialResult(b, 1, imageFiles[1], t) IN
            /\ now' = t
            /\ isProcessing' = TRUE
            /\ processedReceipts' = <<first>>
            /\ pc' = [Live(pc, "idle") EXCEPT ![b] = "extract"]
            /\ files' = [Live(files, <<>>) EXCEPT ![b] = imageFiles]
            /\ cur' = [Live(cur, 0) EXCEPT ![b] = 1]
            /\ results' = [Live(results, <<>>) EXCEPT ![b] = <<first>>]
            /\ initialId' = [Live(initialId, NULL) EXCEPT ![b] = first.id]
            /\ expenseData' = [Live(expenseData, NULL) EXCEPT ![b] = NULL]
            /\ call' = [Live(call, NoJob) EXCEPT
                           ![b] = [NoJob EXCEPT !.extract = "pending"]]
            /\ UNCHANGED <<googleAccessToken, spreadsheetId, imageFiles, alerts>>

\* the user clicks Process Receipts
ClickProcess ==
    /\ ~ButtonDisabled
    /\ handleProcessReceipts

\* the tail of one synchronous run that ends an iteration of the loop: the
\* store st is written back, the handler stands at the foot of the loop
EndJob(b, st, c) ==
    /\ results' = [results EXCEPT ![b] = st.results]
    /\ processedReceipts' = st.observed
    /\ pc' = [pc EXCEPT ![b] = "loop"]
    /\ call' = [call EXCEPT ![b] = c]
    /\ UNCHANGED <<isProcessing, cur, initialId, expenseData>>

\* a catch block around the whole loop instead of one iteration: the record
\* is marked failed and the handler ends
CatchAborts(b, msg, c) ==
    LET st == UpdateResult(Store(b), initialId[b], CatchUpdate(msg)) IN
    /\ results' = [results EXCEPT ![b] = st.results]
    /\ processedReceipts' = st.observed
    /\ pc' = [pc EXCEPT ![b] = "done"]
    /\ call' = [call EXCEPT ![b] = NoJob]
    /\ isProcessing' = FALSE
    /\ UNCHANGED <<cur, initialId, expenseData>>

\* the catch block for an error with message msg
Catch(b, msg, c) ==
    EndJob(b, UpdateResult(Store(b), initialId[b], CatchUpdate(msg)),
           [c EXCEPT !.caught = msg])

\* a loop that stops one file early
MoreFilesOffByOne(b) == cur[b] + 1 < Len(files[b])

\* for (const file of imageFiles): there is a file after the current one
MoreFiles(b) == cur[b] + 1 <= Len(files[b])

\* the foot of the for loop, in the same run as the update that ended the
\* job: the next iteration up to its await, or the end of the handler
NextIteration(b) ==
    /\ pc[b] = "loop"
    /\ LET k == cur[b] + 1 IN
       IF MoreFiles(b)
       THEN \E t \in DateNow :
            LET next == InitialResult(b, k, files[b][k], t)
                res == Append(results[b], next) IN
            /\ now' = t
            /\ results' = [results EXCEPT ![b] = res]
            /\ processedReceipts' = res
            /\ cur' = [cur EXCEPT ![b] = k]
            /\ initialId' = [initialId EXCEPT ![b] = next.id]
            /\ expenseData' = [expenseData EXCEPT ![b] = NULL]
            /\ pc' = [pc EXCEPT ![b] = "extract"]
            /\ call' = [call EXCEPT ![b] = [NoJob EXCEPT !.extract = "pending"]]
            /\ UNCHANGED isProcessing
       ELSE /\ pc' = [pc EXCEPT ![b] = "done"]
            /\ call' = [call EXCEPT ![b] = NoJob]
            /\ isProcessing' = FALSE
            /\ UNCHANGED <<now, results, processedReceipts, cur, initialId,
                           expenseData>>
    /\ UNCHANGED <<googleAccessToken, spreadsheetId, imageFiles, invocations,
                   alerts, files>>

\* a handler that passes whatever text it got to generateExpenseJson
ExtractReturnsUnchecked(b) ==
    /\ ~Busy
    /\ pc[b] = "extract"
    /\ \/ \E msg \in ApiErrors :
            Catch(b, msg, [call[b] EXCEPT !.extract = "threw"])
       \/ \E text \in OcrTexts :
            LET c == [call[b] EXCEPT !.extract = "returned", !.text = text]
                st == UpdateResult(Store(b), initialId[b],
                                   [status |-> "Structuring data..."]) IN
            /\ results' = [results EXCEPT ![b] = st.results]
            /\ processedReceipts' = st.observed
            /\ pc' = [pc EXCEPT ![b] = "structure"]
            /\ call' = [call EXCEPT ![b] = [c EXCEPT !.structure = "pending"]]
            /\ UNCHANGED <<isProcessing, cur, initialId, expenseData>>
    /\ UNCHANGED <<googleAccessToken, spreadsheetId, imageFiles, now,
                   invocations, alerts, files>>

\* extractTextFromImage settles: the SDK call rejected, or response.text
ExtractReturns(b) ==
    /\ ~Busy
    /\ pc[b] = "extract"
    /\ \/ \E msg \in ApiErrors :
            Catch(b, msg, [call[b] EXCEPT !.extract = "threw"])
       \/ \E text \in OcrTexts :
            LET c == [call[b] EXCEPT !.extract = "returned", !.text = text] IN
            IF Falsy(text)
            THEN Catch(b, EmptyTextMessage, c)
            ELSE LET st == UpdateResult(Store(b), initialId[b],
                                        [status |-> "Structuring data..."]) IN
                 /\ results' = [results EXCEPT ![b] = st.results]
                 /\ processedReceipts' = st.observed
                 /\ pc' = [pc EXCEPT ![b] = "structure"]
                 /\ call' = [call EXCEPT
                               ![b] = [c EXCEPT !.structure = "pending"]]
                 /\ UNCHANGED <<isProcessing, cur, initialId, expenseData>>
    /\ UNCHANGED <<googleAccessToken, spreadsheetId, imageFiles, now,
                   invocations, alerts, files>>

\* generateExpenseJson settles: the SDK call rejected, or response.text is
\* trimmed and parsed; the parsed value is attached to the record (line 82)
StructureReturns(b) ==
    /\ ~Busy
    /\ pc[b] = "structure"
    /\ \/ \E msg \in ApiErrors :
            Catch(b, msg, [call[b] EXCEPT !.structure = "threw"])
       \/ \E text \in JsonTexts :
            LET json == JsonParse(Trim(text)) IN
            IF ~json.ok
            THEN Catch(b, InvalidStructureMessage,
                       [call[b] EXCEPT !.structure = "threw"])
            ELSE LET st == UpdateResult(Store(b), initialId[b],
                                        [status |-> "Data extracted",
                                         data |-> json.value]) IN
                 /\ results' = [results EXCEPT ![b] = st.results]
                 /\ processedReceipts' = st.observed
                 /\ expenseData' = [expenseData EXCEPT ![b] = json.value]
                 /\ pc' = [pc EXCEPT ![b] = "structured"]
                 /\ call' = [call EXCEPT
                               ![b] = [call[b] EXCEPT
                                         !.structure = "returned",
                                         !.parsed = json.value]]
                 /\ UNCHANGED <<isProcessing, cur, initialId>>
    /\ UNCHANGED <<googleAccessToken, spreadsheetId, imageFiles, now,
                   invocations, alerts, files>>

\* lines 84 to 87, in the same run as line 82: the status update and the
\* call of saveToGoogleSheets
StartSaving(b) ==
    /\ pc[b] = "structured"
    /\ LET st == UpdateResult(Store(b), initialId[b],
                              [status |-> "Saving to Google Sheets..."]) IN
       /\ results' = [results EXCEPT ![b] = st.results]
       /\ processedReceipts' = st.observed
    /\ pc' = [pc EXCEPT ![b] = "save"]
    /\ call' = [call EXCEPT ![b] = [call[b] EXCEPT !.persist = "pending"]]
    /\ UNCHANGED <<googleAccessToken, spreadsheetId, imageFiles, isProcessing,
                   now, invocations, alerts, files, cur, initialId, expenseData>>

\* saveToGoogleSheets settles: a TypeError on data it cannot read, the
\* response was ok, or the Error made from a non-ok response
SaveReturns(b) ==
    /\ ~Busy
    /\ pc[b] = "save"
    /\ IF SaveTypeError(expenseData[b]) # NULL
       THEN Catch(b, SaveTypeError(expenseData[b]),
                  [call[b] EXCEPT !.persist = "threw"])
       ELSE \/ EndJob(b,
                      UpdateResult(Store(b), initialId[b],
                                   [status |-> "Saved successfully!",
                                    saveStatus |-> "success"]),
                      [call[b] EXCEPT !.persist = "returned"])
            \/ \E m \in SheetsErrors :
                 Catch(b, OrElse(m, SheetsFallbackMessage),
                       [call[b] EXCEPT !.persist = "threw"])
    /\ UNCHANGED <<googleAccessToken, spreadsheetId, imageFiles, now,
                   invocations, alerts, files>>

(* --------------------------- specifications --------------------------- *)
Resume ==
    \E b \in Batches :
        \/ ExtractReturns(b)
        \/ StructureReturns(b)
        \/ StartSaving(b)
        \/ SaveReturns(b)
        \/ NextIteration(b)

\* the application as its page drives it
Next ==
    \/ SetGoogleAccessToken
    \/ SetSpreadsheetId
    \/ SetImageFiles
    \/ ClickProcess
    \/ Resume

Spec == Init /\ [][Next]_vars

\* every pending collaborator call settles, and a run that was resumed
\* goes on to its next await
FairSpec == Spec /\ WF_vars(Resume)

\* the handler called by something other than the button, between two
\* batches, whatever the selection and the connection are
CallHandler ==
    /\ ~isProcessing
    /\ handleProcessReceipts

HandlerNext ==
    \/ SetGoogleAccessToken
    \/ SetSpreadsheetId
    \/ SetImageFiles
    \/ CallHandler
    \/ Resume

HandlerSpec == Init /\ [][HandlerNext]_vars

\* the handler called again while an earlier invocation is still awaiting a
\* collaborator: nothing in the handler refuses such a call, only the button
\* does.  The selections are kept short, since two running invocations
\* multiply each other's states.
SetFewImageFiles ==
    /\ SetImageFiles
    /\ Len(imageFiles') <= MaxOverlapFiles

OverlapNext ==
    \/ SetGoogleAccessToken
    \/ SetSpreadsheetId
    \/ SetFewImageFiles
    \/ handleProcessReceipts
    \/ Resume

OverlapSpec == Init /\ [][OverlapNext]_vars


(* ----------------------- vocabulary of the properties ---------------- *)
Terminal(r) == r.saveStatus \in {"success", "failed"}

Started(b) == pc[b] # "idle"

Running(b) == pc[b] \notin {"idle", "done"}

\* the record that was created for the job invocation b is running
OwnRecord(b) == results[b][cur[b]]

\* the records of every store and of the observable collection
AllRecords ==
    {processedReceipts[i] : i \in DOMAIN processedReceipts}
        \cup UNION {{results[b][i] : i \in DOMAIN results[b]} : b \in Batches}

(* ------------------------------- C1 ----------------------------------- *)
\* C1: within one batch the record of job k+1 exists (and so job k+1 has
\* made an update or a call) only when the record of job k is terminal.
C1_Sequential ==
    \A b \in Batches :
        \A k \in 1..(Len(results[b]) - 1) : Terminal(results[b][k])

(* ------------------------------- C4 ----------------------------------- *)
\* C4: the ids of the records of the result collection are pairwise
\* distinct, in every reachable state.
C4_UniqueIds ==
    \A i, j \in DOMAIN processedReceipts :
        i # j => processedReceipts[i].id # processedReceipts[j].id


(* ------------------------------- C2 ----------------------------------- *)
\* C2: whatever the outcomes of the jobs before it, every file of the batch
\* gets its job: a handler that is running has created one record per job
\* started and has called extractTextFromImage for the current one, and a
\* handler that has ended has started a job for each of its files.
C2_FailureIsolated ==
    \A b \in Batches :
        /\ Running(b) =>
            /\ cur[b] = Len(results[b])
            /\ call[b].extract # "none"
        /\ pc[b] = "done" =>
            /\ cur[b] = Len(files[b])
            /\ Len(results[b]) = Len(files[b])

\* a job failed and the job after it was run to success
C2_Witness ==
    \E b \in Batches :
        /\ pc[b] = "done"
        /\ Len(results[b]) >= 2
        /\ results[b][1].saveStatus = "failed"
        /\ results[b][2].saveStatus = "success"

(* ------------------------------- C3 ----------------------------------- *)
\* the observable collection holds one record per file of batch b, in the
\* order of the files
Complete(b) ==
    /\ Len(processedReceipts) = Len(files[b])
    /\ \A i \in DOMAIN processedReceipts :
        processedReceipts[i].imagePreview = CreateObjectURL(b, i)

\* C3: when every pending call settles, the observable collection of a
\* batch of N files never holds more than N records and eventually holds
\* exactly N, one per file in the order of the files.
C3_ExactlyN ==
    /\ [](\A b \in Batches :
            Started(b) => Len(processedReceipts) <= Len(files[b]))
    /\ \A b \in Batches : Running(b) ~> (pc[b] = "done" /\ Complete(b))

\* a batch of three files has ended with three records
C3_Witness ==
    \E b \in Batches :
        /\ pc[b] = "done"
        /\ Len(files[b]) = 3
        /\ Complete(b)

(* ------------------------------- C5 ----------------------------------- *)
\* C5: a job whose extraction and structuring succeeded and whose persist
\* call failed ends failed, with the message of the persistence error and
\* with the structured result still in data.
C5_DataKept ==
    \A b \in Batches :
        (/\ pc[b] = "loop"
         /\ call[b].structure = "returned"
         /\ call[b].persist = "threw")
        => /\ OwnRecord(b).saveStatus = "failed"
           /\ OwnRecord(b).error = call[b].caught
           /\ OwnRecord(b).data = call[b].parsed

(* ------------------------------- C6 ----------------------------------- *)
\* the extracted text is empty or whitespace only
Blank(text) == text \in {"", "  "}

\* C6: a job whose extraction returned empty or blank text ends failed,
\* without data and with the unclear-image message.
C6_BlankTextFails ==
    \A b \in Batches :
        (/\ pc[b] = "loop"
         /\ call[b].extract = "returned"
         /\ Blank(call[b].text))
        => /\ OwnRecord(b).saveStatus = "failed"
           /\ OwnRecord(b).data = NULL
           /\ OwnRecord(b).error = EmptyTextMessage

(* ------------------------------- C7 ----------------------------------- *)
\* C7: every record with saveStatus success has data and has no error.
C7_SuccessHasData ==
    \A r \in AllRecords :
        r.saveStatus = "success" => (r.data # NULL /\ r.error = NULL)

(* ------------------------------- C8 ----------------------------------- *)
\* C8: every record with saveStatus failed has a non-empty error message.
C8_FailedHasError ==
    \A r \in AllRecords :
        r.saveStatus = "failed" => (r.error # NULL /\ r.error # "")

\* a job has caught an error whose message is empty
C8_Witness ==
    \E b \in Batches :
        /\ pc[b] = "loop"
        /\ call[b].caught = ""
        /\ OwnRecord(b).saveStatus = "failed"

(* ------------------------------- C9 ----------------------------------- *)
\* the place of a status label in the sequence of phases
Phase(status) ==
    CASE status = "Processing OCR..." -> 1
      [] status = "Structuring data..." -> 2
      [] status = "Data extracted" -> 3
      [] status = "Saving to Google Sheets..." -> 4
      [] status = "Saved successfully!" -> 5
      [] status = "Failed" -> 5

\* C9: no step moves the status of a record to an earlier phase, or out of
\* a terminal phase.
C9_StatusForward ==
    [][\A b \in Batches :
         \A i \in (DOMAIN results[b]) \cap (DOMAIN results'[b]) :
            \/ results'[b][i].status = results[b][i].status
            \/ Phase(results'[b][i].status) > Phase(results[b][i].status)]_vars

(* ------------------------------- C10 ---------------------------------- *)
\* C10: a call of the handler with no file selected, no access token or no
\* spreadsheet creates no record, calls no collaborator and leaves the
\* observable collection and the processing flag as they were.
C10_ValidationRejects ==
    [][(/\ invocations' = invocations + 1
        /\ \/ imageFiles = <<>>
           \/ googleAccessToken = ""
           \/ spreadsheetId = "")
       => UNCHANGED <<processedReceipts, isProcessing, runVars>>]_vars

\* the handler has refused a call while the collection of an earlier batch
\* was on display
C10_Witness ==
    /\ alerts > 0
    /\ processedReceipts # <<>>

(* ------------------- updateResult as a function ------------------------ *)
\* the ids updateResult is asked to look up
LookupIds == {JobId(name, t) : name \in FileNames, t \in {ClockStart, ClockStart + 1}}

\* the updates the handler issues, one of each call site
Updates ==
    {[status |-> "Structuring data..."],
     [status |-> "Data extracted", data |-> ValidExpense],
     [status |-> "Saving to Google Sheets..."],
     [status |-> "Saved successfully!", saveStatus |-> "success"],
     CatchUpdate("")}

\* the arrays the loop builds by pushing initial records
PushedStores ==
    UNION {{[k \in 1..n |-> InitialResult(1, k, names[k], ClockStart)] :
                names \in [1..n -> FileNames]} : n \in 0..MaxStore}

\* a store of pushed records, published or not yet, and no handler running
StoreInit ==
    /\ googleAccessToken = ""
    /\ spreadsheetId = ""
    /\ imageFiles = <<>>
    /\ isProcessing = FALSE
    /\ now = ClockStart
    /\ invocations = 0
    /\ alerts = 0
    /\ pc = [b \in Batches |-> "idle"]
    /\ files = [b \in Batches |-> <<>>]
    /\ cur = [b \in Batches |-> 0]
    /\ initialId = [b \in Batches |-> NULL]
    /\ expenseData = [b \in Batches |-> NULL]
    /\ call = [b \in Batches |-> NoJob]
    /\ \E st \in PushedStores :
            /\ results = [b \in Batches |-> IF b = 1 THEN st ELSE <<>>]
            /\ processedReceipts \in {<<>>, st}

\* updateResult(update) of a closure whose initialResult.id is id
ApplyUpdate ==
    \E id \in LookupIds, update \in Updates :
        LET st == UpdateResult(Store(1), id, update) IN
        /\ initialId' = [initialId EXCEPT ![1] = id]
        /\ results' = [results EXCEPT ![1] = st.results]
        /\ processedReceipts' = st.observed
        /\ UNCHANGED <<googleAccessToken, spreadsheetId, imageFiles,
                       isProcessing, now, invocations, alerts, pc, files, cur,
                       expenseData, call>>

StoreSpec == StoreInit /\ [][ApplyUpdate]_vars

(* ------------------------------- C13 ---------------------------------- *)
\* C13: an update whose id matches no record of the store is a no-op: the
\* store is left as it was and no snapshot is published.
C13_AbsentIdNoOp ==
    [][FindIndex(results[1], initialId'[1]) = -1 =>
          /\ results' = results
          /\ processedReceipts' = processedReceipts]_vars

\* an update for an id that is in no record was applied to a store that has
\* records and has not been published
C13_Witness ==
    /\ initialId[1] # NULL
    /\ FindIndex(results[1], initialId[1]) = -1
    /\ Len(results[1]) > 0
    /\ processedReceipts = <<>>

(* ------------------------------- C14 ---------------------------------- *)
\* C14: updateResult is idempotent: applying an update twice in a row gives
\* the store and the snapshot that applying it once gives.
C14_Idempotent ==
    \A id \in LookupIds, update \in Updates :
        LET once == UpdateResult(Store(1), id, update) IN
        UpdateResult(once, id, update) = once

\* the update of the catch block was applied to a record that was found,
\* so that applying it again finds the record it has already changed
C14_Witness ==
    /\ initialId[1] # NULL
    /\ FindIndex(results[1], initialId[1]) # -1
    /\ results[1][FindIndex(results[1], initialId[1])].status = "Failed"
    /\ processedReceipts = results[1]

(* ------------------------------- C11 ---------------------------------- *)
\* invocation b has been followed by the start of a later batch
Superseded(b) == \E c \in Batches : b < c /\ Started(c)

\* the invocation whose job created the record r (createObjectURL gives each
\* job of each invocation a URL of its own)
BatchOf(r) == r.imagePreview[2]

PendingCalls ==
    {c \in Batches \X {"extract", "structure", "persist"} :
        call[c[1]][c[2]] = "pending"}

\* C15: in every state the page reaches, at most one call of
\* extractTextFromImage, generateExpenseJson or saveToGoogleSheets is in
\* flight, over all jobs and all batches started.
C15_OneCallInFlight == Cardinality(PendingCalls) <= 1

\* the second batch started has a call of saveToGoogleSheets in flight
C15_Witness ==
    /\ invocations = 2
    /\ <<2, "persist">> \in PendingCalls

(* ------------------------------- C16 ---------------------------------- *)
\* C16: a record whose saveStatus is success or failed is final: no later
\* step of its batch changes any of its fields.
C16_TerminalFinal ==
    [][\A b \in Batches :
          \A i \in (DOMAIN results[b]) \cap (DOMAIN results'[b]) :
              Terminal(results[b][i]) => results'[b][i] = results[b][i]]_vars

(* ------------------------------- C19 ---------------------------------- *)
\* C19: a step taken while job k of a batch runs changes no record of the
\* batch other than the one created for job k, also when two files of the
\* batch have the same name.
C19_OwnRecordOnly ==
    [][\A b \in Batches :
          \A i \in (DOMAIN results[b]) \cap (DOMAIN results'[b]) :
              i # cur[b] => results'[b][i] = results[b][i]]_vars

(* ------------------------------- C17 ---------------------------------- *)
\* the value has the fields of ExpenseData: merchant, date, total, items
ValidShape(v) == v = ValidExpense

\* C17: a structuring response that parses to a value without the shape of
\* ExpenseData is an error of generateExpenseJson: such a value is never
\* what the call returned, never the data of a record, and never what
\* saveToGoogleSheets is called with.
C17_ShapeValidated ==
    \A b \in Batches :
        /\ call[b].structure = "returned" => ValidShape(call[b].parsed)
        /\ call[b].persist # "none" => ValidShape(expenseData[b])
        /\ \A i \in DOMAIN results[b] :
              results[b][i].data # NULL => ValidShape(results[b][i].data)

(* ------------------------------- C18 ---------------------------------- *)
\* the batch [A.jpg, B.jpg] of invocation b has come to the end of its
\* second job: A.jpg was saved, and the call of extractTextFromImage for
\* B.jpg threw "Could not extract any text."
ScenarioAB(b) ==
    /\ files[b] = <<"A.jpg", "B.jpg">>
    /\ pc[b] = "loop"
    /\ cur[b] = 2
    /\ results[b][1].saveStatus = "success"
    /\ call[b].extract = "threw"
    /\ call[b].caught = "Could not extract any text."

\* the collection of the scenario, with the given error for B.jpg
FinalCollectionAB(error) ==
    /\ Len(processedReceipts) = 2
    /\ processedReceipts[1].saveStatus = "success"
    /\ processedReceipts[1].data # NULL
    /\ processedReceipts[2].saveStatus = "failed"
    /\ processedReceipts[2].data = NULL
    /\ processedReceipts[2].error = error

\* C18 as stated: in the scenario the error of B.jpg is the message of the
\* handler's own check for empty text.
C18_ScenarioAsStated ==
    \A b \in Batches : ScenarioAB(b) => FinalCollectionAB(EmptyTextMessage)

\* C18: for the batch [A.jpg, B.jpg] where A.jpg is saved and the extraction
\* call for B.jpg throws "Could not extract any text.", the final collection
\* has two records, A.jpg with saveStatus success and data, B.jpg with
\* saveStatus failed, no data and the thrown message as its error.
C18_Scenario ==
    \A b \in Batches :
        ScenarioAB(b) => FinalCollectionAB("Could not extract any text.")

\* the scenario has been run to the end of the job of B.jpg
C18_Witness == \E b \in Batches : ScenarioAB(b)

(* ------------------------------- C20 ---------------------------------- *)
Collaborators == {"extract", "structure", "persist"}

\* the calls made for the current job of invocation b came in order, each
\* after the one before it had succeeded
InOrder(b) ==
    /\ call[b].structure # "none" =>
          /\ call[b].extract = "returned"
          /\ call[b].text \notin {"", NULL}
    /\ call[b].persist # "none" =>
          /\ call[b].extract = "returned"
          /\ call[b].structure = "returned"

\* within one job a collaborator is called only if it has not been called,
\* and a call that has settled is not made again
AtMostOnce(b) ==
    (cur'[b] = cur[b] /\ Running(b) /\ Running(b)') =>
        \A s \in Collaborators :
            /\ (call'[b][s] = "pending" /\ call[b][s] # "pending") =>
                    call[b][s] = "none"
            /\ call[b][s] \in {"returned", "threw"} =>
                    call'[b][s] = call[b][s]

\* C20: for each job extractTextFromImage, generateExpenseJson and
\* saveToGoogleSheets are called in this order, each at most once, and one
\* is called only if the one before it succeeded: generateExpenseJson is not
\* called after extraction failed or returned empty text, saveToGoogleSheets
\* is not called after extraction or structuring failed.
C20_CallOrder ==
    [][\A b \in Batches : InOrder(b)' /\ AtMostOnce(b)]_vars

\* the first job of a batch went through its three calls and was saved, and
\* the second ended after extractTextFromImage returned empty text, with no
\* other call made
C20_Witness ==
    \E b \in Batches :
        /\ pc[b] = "loop"
        /\ cur[b] = 2
        /\ results[b][1].status = "Saved successfully!"
        /\ call[b].extract = "returned"
        /\ call[b].text = ""
        /\ call[b].structure = "none"
        /\ call[b].persist = "none"

(* ------------------------------- C21 ---------------------------------- *)
\* C21: a batch that passed validation comes to its end with every job
\* terminal: when its handler has ended no record of it has saveStatus
\* pending and isProcessing is false, and isProcessing is true from the
\* start of the batch until then.
C21_BatchTerminates ==
    \A b \in Batches :
        /\ Running(b) => isProcessing
        /\ pc[b] = "done" =>
              /\ \A i \in DOMAIN results[b] : Terminal(results[b][i])
              /\ (\A c \in Batches : ~Running(c)) => ~isProcessing

=============================================================================
